---- MODULE Spec2Model ----
(***************************************************************************)
(* Model of src/main.py, an entropy-maximising Wordle solver.              *)
(*                                                                         *)
(* A word and a pattern are Python strings; they are modelled as sequences *)
(* of one-character strings.  Two specifications are given:                *)
(*   Spec       the interactive session loop of main()                     *)
(*   SpecCalls  single calls of the five pure functions on bounded inputs  *)
(***************************************************************************)
EXTENDS Integers, Sequences, FiniteSets, TLC

VARIABLES
    words,        \* main: the list of remaining words
    best_guess,   \* main: the last value returned by get_best_guess
    pattern,      \* main: the last string read from input()
    pc,           \* main: position in the loop body ("select" / "input")
    secret,       \* environment: the word the game holds
    words0,       \* history: the list load_possible_words() returned
    truthful,     \* history: every pattern typed so far was get_pattern(best_guess, secret)
    turns,        \* history: completed iterations of a truthful session (saturates
                  \* at MaxTurns; no longer counted once a pattern was untruthful)
    fn,           \* SpecCalls: name of the function that was called
    args,         \* SpecCalls: its arguments
    ret           \* SpecCalls: its outcome [raised, value]

vars == <<words, best_guess, pattern, pc, secret, words0, truthful, turns, fn, args, ret>>

sessionVars == <<words, best_guess, pattern, pc, secret, words0, truthful, turns>>

callVars == <<fn, args, ret>>

----------------------------------------------------------------------------
(* Bounds and input sets *)

MaxWords == 3

MaxTurns == MaxWords + 1

WordLen == 5

Letters == {"a", "b", "c"}

ShortLetters == {"a", "b"}

W(s1, s2, s3, s4, s5) == <<s1, s2, s3, s4, s5>>

\* The word list the session and the list functions draw from: repeated
\* letters, two anagrams (ababa / baaab), a word sharing no letter with others.
Dict ==
    { W("a","a","b","b","b"), W("a","b","a","b","a"), W("b","a","a","a","b"),
      W("c","c","c","c","c"), W("a","b","c","a","b"), W("a","a","a","a","a") }

WordsOfLen(L, n) == [1..n -> L]

\* Inputs of a single get_pattern call: every 5-letter word over Letters, and
\* words of length 4 and 6 over ShortLetters (lengths that differ from 5).
PatternCallWords ==
    WordsOfLen(Letters, WordLen) \cup WordsOfLen(ShortLetters, WordLen - 1)
        \cup WordsOfLen(ShortLetters, WordLen + 1)

WordLists == UNION { [1..n -> Dict] : n \in 0..MaxWords }

----------------------------------------------------------------------------
(* Python values *)

\* None: a value different from every word (a word holds single letters).
None == <<"None">>

Min(a, b) == IF a < b THEN a ELSE b

\* Counter(secret_word)[c] / secret_counts.get(c, 0)
Occ(c, word) == Cardinality({ i \in 1..Len(word) : word[i] = c })

\* ''.join(pattern): the slots still holding '' contribute nothing
NonEmptyString(x) == x # ""

Join(p) == SelectSeq(p, NonEmptyString)

\* [x] * n
RECURSIVE Repeat(_, _)
Repeat(x, n) == IF n = 0 THEN <<>> ELSE Append(Repeat(x, n - 1), x)

----------------------------------------------------------------------------
(* get_pattern, src/main.py lines 38-69 *)

\* guess_counts = defaultdict(int): every key reads 0 until incremented.
\* Only letters of the guess are ever used as keys.
NewGuessCounts(guess_word) ==
    [c \in { guess_word[i] : i \in 1..Len(guess_word) } |-> 0]

\* lines 54-57: one iteration of the exact-match loop at 1-based position i.
\* st = [pattern, guess_counts]
FirstPassStep(guess_word, secret_word, i, st) ==
    IF guess_word[i] = secret_word[i]
    THEN [pattern |-> [st.pattern EXCEPT ![i] = "G"],
          guess_counts |-> [st.guess_counts EXCEPT ![guess_word[i]] = @ + 1]]
    ELSE st

\* Mutant of SecondPassStep: a Yellow does not consume an occurrence
\* (line 65 dropped).
SecondPassStepNoConsume(guess_word, secret_word, i, st) ==
    IF st.pattern[i] = "G" THEN st
    ELSE IF st.guess_counts[guess_word[i]] < Occ(guess_word[i], secret_word)
    THEN [st EXCEPT !.pattern[i] = "Y"]
    ELSE [st EXCEPT !.pattern[i] = "B"]

\* lines 60-67: one iteration of the remainder loop at 1-based position i.
SecondPassStep(guess_word, secret_word, i, st) ==
    IF st.pattern[i] = "G" THEN st
    ELSE IF st.guess_counts[guess_word[i]] < Occ(guess_word[i], secret_word)
    THEN [pattern |-> [st.pattern EXCEPT ![i] = "Y"],
          guess_counts |-> [st.guess_counts EXCEPT ![guess_word[i]] = @ + 1]]
    ELSE [st EXCEPT !.pattern[i] = "B"]

\* Mutant of FirstPass: the exact-match loop is missing, nothing is Green.
FirstPassMissing(guess_word, secret_word, i, st) == st

\* line 53: for i, (...) in enumerate(zip(guess_word, secret_word)), from i on.
\* zip stops at the end of the shorter word.
RECURSIVE FirstPass(_, _, _, _)
FirstPass(guess_word, secret_word, i, st) ==
    IF i > Min(Len(guess_word), Len(secret_word)) THEN st
    ELSE FirstPass(guess_word, secret_word, i + 1,
                   FirstPassStep(guess_word, secret_word, i, st))

\* line 59: the second loop over the same zip, from i on.
RECURSIVE SecondPass(_, _, _, _)
SecondPass(guess_word, secret_word, i, st) ==
    IF i > Min(Len(guess_word), Len(secret_word)) THEN st
    ELSE SecondPass(guess_word, secret_word, i + 1,
                    SecondPassStep(guess_word, secret_word, i, st))

\* lines 48, 55, 60: pattern has exactly 5 slots and both loops index it at
\* every zipped position, so a zip longer than 5 raises IndexError (in the
\* first loop on a match at position 6, in the second loop otherwise).
get_pattern_raises(guess_word, secret_word) ==
    Min(Len(guess_word), Len(secret_word)) > WordLen

\* lines 48-69: the string returned when no exception is raised.
get_pattern(guess_word, secret_word) ==
    LET start == [pattern |-> Repeat("", WordLen),
                  guess_counts |-> NewGuessCounts(guess_word)]
        greens == FirstPass(guess_word, secret_word, 1, start)
        done   == SecondPass(guess_word, secret_word, 1, greens)
    IN  Join(done.pattern)

----------------------------------------------------------------------------
(* get_pattern_counts, src/main.py lines 72-89 *)

\* Mutant of CountPattern: the tally is set to 1 instead of incremented.
CountPatternSetOne(patterns, p) ==
    IF p \in DOMAIN patterns THEN [patterns EXCEPT ![p] = 1]
    ELSE patterns @@ (p :> 1)

\* line 87: patterns[pattern] += 1 on a defaultdict(int); a missing key is
\* created at 0 and incremented.
CountPattern(patterns, p) ==
    IF p \in DOMAIN patterns THEN [patterns EXCEPT ![p] = @ + 1]
    ELSE patterns @@ (p :> 1)

\* lines 85-87: the loop over secret_words from position i on.
RECURSIVE PatternCountsFrom(_, _, _, _)
PatternCountsFrom(guess_word, secret_words, i, patterns) ==
    IF i > Len(secret_words) THEN patterns
    ELSE PatternCountsFrom(guess_word, secret_words, i + 1,
             CountPattern(patterns, get_pattern(guess_word, secret_words[i])))

\* lines 83-89: the dict pattern -> count, a function whose domain is its keys.
get_pattern_counts(guess_word, secret_words) ==
    PatternCountsFrom(guess_word, secret_words, 1, <<>>)

----------------------------------------------------------------------------
(* calculate_entropy, src/main.py lines 92-112 *)

\* An entropy value H over n secret words is kept exactly, as the fraction
\* num/den = 2^(n*H): adding the term p * log2(1/p) with p = count/n
\* multiplies the fraction by (n/count)^count.  inf marks -inf (line 124).
\* The float 0 the code starts from is 1/1.
EntropyZero(n) == [inf |-> FALSE, n |-> n, num |-> 1, den |-> 1]

NegInf == [inf |-> TRUE, n |-> 0, num |-> 1, den |-> 1]

\* lines 109-110: entropy += (count / n) * log2(1 / (count / n))
AddTerm(entropy, count, n) ==
    [entropy EXCEPT !.num = @ * (n ^ count), !.den = @ * (count ^ count)]

\* e1 > e2 on floats; both finite values are over the same n (line 130
\* compares entropies of one list), -inf is below every finite value.
EntropyGreater(e1, e2) ==
    IF e1.inf THEN FALSE
    ELSE IF e2.inf THEN TRUE
    ELSE e1.num * e2.den > e2.num * e1.den

\* entropy == 0
EntropyIsZero(e) == ~e.inf /\ e.num = e.den

\* lines 108-110: the loop over patterns.values() for the keys still in todo.
RECURSIVE EntropySum(_, _, _, _)
EntropySum(patterns, todo, n, entropy) ==
    IF todo = {} THEN entropy
    ELSE LET p == CHOOSE q \in todo : TRUE
         IN  EntropySum(patterns, todo \ {p}, n, AddTerm(entropy, patterns[p], n))

\* Mutant of calculate_entropy_raises: 1 / n is computed before the loop.
calculate_entropy_divides_first(guess_word, secret_words) ==
    Len(secret_words) = 0

\* line 109: count / n raises ZeroDivisionError when the loop body runs
\* with n = 0.
calculate_entropy_raises(guess_word, secret_words) ==
    Len(secret_words) = 0
        /\ DOMAIN get_pattern_counts(guess_word, secret_words) # {}

\* lines 102-112: the value returned when no exception is raised.
calculate_entropy(guess_word, secret_words) ==
    LET n == Len(secret_words)
        patterns == get_pattern_counts(guess_word, secret_words)
    IN  EntropySum(patterns, DOMAIN patterns, n, EntropyZero(n))

----------------------------------------------------------------------------
(* get_best_guess, src/main.py lines 115-134 *)

\* Mutant of BestGuessStep: >= instead of >, the last of equal words wins.
BestGuessStepLastWins(wordlist, i, best) ==
    LET entropy == calculate_entropy(wordlist[i], wordlist)
    IN  IF ~EntropyGreater(best.best_entropy, entropy)
        THEN [best_entropy |-> entropy, best_word |-> wordlist[i]]
        ELSE best

\* lines 128-132: one iteration of the scan, at 1-based position i.
BestGuessStep(wordlist, i, best) ==
    LET entropy == calculate_entropy(wordlist[i], wordlist)
    IN  IF EntropyGreater(entropy, best.best_entropy)
        THEN [best_entropy |-> entropy, best_word |-> wordlist[i]]
        ELSE best

\* line 127: for guess_word in words, from position i on.
RECURSIVE BestGuessFrom(_, _, _)
BestGuessFrom(wordlist, i, best) ==
    IF i > Len(wordlist) THEN best
    ELSE BestGuessFrom(wordlist, i + 1, BestGuessStep(wordlist, i, best))

\* lines 124-134: best_word, None when the loop never ran.
get_best_guess(wordlist) ==
    BestGuessFrom(wordlist, 1, [best_entropy |-> NegInf, best_word |-> None]).best_word

----------------------------------------------------------------------------
(* get_words_with_pattern, src/main.py lines 137-154 *)

\* Mutant of KeepWord: != instead of ==.
KeepWordNegated(guess_word, secret_word, p) ==
    get_pattern(guess_word, secret_word) # p

\* line 151: the test that keeps a word.
KeepWord(guess_word, secret_word, p) ==
    get_pattern(guess_word, secret_word) = p

\* lines 150-152: the loop over words from position i on.
RECURSIVE WordsWithPatternFrom(_, _, _, _, _)
WordsWithPatternFrom(guess_word, wordlist, p, i, possible) ==
    IF i > Len(wordlist) THEN possible
    ELSE WordsWithPatternFrom(guess_word, wordlist, p, i + 1,
             IF KeepWord(guess_word, wordlist[i], p)
             THEN Append(possible, wordlist[i]) ELSE possible)

\* Mutant of get_words_with_pattern: the scan starts at the second word.
get_words_with_pattern_skip_first(guess_word, wordlist, p) ==
    WordsWithPatternFrom(guess_word, wordlist, p, 2, <<>>)

\* lines 148-154: a fresh list, the argument is only read.
get_words_with_pattern(guess_word, wordlist, p) ==
    WordsWithPatternFrom(guess_word, wordlist, p, 1, <<>>)

----------------------------------------------------------------------------
(* main, src/main.py lines 157-172: the session loop *)

NoArgs == [guess_word |-> <<>>, secret_word |-> <<>>, words |-> <<>>, pattern |-> <<>>]

NoRet == [raised |-> "", value |-> <<>>]

\* line 158: words = load_possible_words(); the game holds some secret.
Init ==
    /\ words \in WordLists
    /\ words0 = words
    /\ secret \in Dict
    /\ best_guess = None
    /\ pattern = <<>>
    /\ pc = "select"
    /\ truthful = TRUE
    /\ turns = 0
    /\ fn = "none" /\ args = NoArgs /\ ret = NoRet

\* lines 164-166: best_guess = get_best_guess(words); print it.
BestGuess ==
    /\ pc = "select"
    /\ best_guess' = get_best_guess(words)
    /\ pc' = "input"
    /\ UNCHANGED <<words, pattern, secret, words0, truthful, turns, fn, args, ret>>

\* lines 169-172: pattern = input(...); words = get_words_with_pattern(...);
\* the loop then starts over, whatever the new list is.
Feedback(p) ==
    /\ pc = "input"
    /\ pattern' = p
    /\ words' = get_words_with_pattern(best_guess, words, p)
    /\ pc' = "select"
    /\ truthful' = (truthful /\ best_guess # None /\ p = get_pattern(best_guess, secret))
    /\ turns' = IF truthful' THEN Min(turns + 1, MaxTurns) ELSE 0
    /\ UNCHANGED <<best_guess, secret, words0, fn, args, ret>>

\* What the user may type after a guess: the pattern of the guess against any
\* word of Dict (the truthful one among them), or a string that is no pattern.
FeedbackInputs ==
    IF best_guess = None THEN { <<>>, W("G", "G", "G", "G", "G") }
    ELSE { get_pattern(best_guess, c) : c \in Dict } \cup { <<"G", "G", "G", "G">> }

Next ==
    \/ BestGuess
    \/ \E p \in FeedbackInputs : Feedback(p)

Spec == Init /\ [][Next]_vars

----------------------------------------------------------------------------
(* Single calls of the functions on bounded inputs *)

Returned(v) == [raised |-> "", value |-> v]

Raised(e) == [raised |-> e, value |-> <<>>]

\* Pattern arguments of a single get_words_with_pattern call with guess g:
\* every pattern g produces against a word of Dict, and strings that are no
\* 5-symbol pattern.
CallPatterns(g) ==
    { get_pattern(g, c) : c \in Dict }
        \cup { <<>>, <<"G", "G", "G", "G">>, W("G", "Y", "B", "X", "G") }

InitCalls ==
    /\ fn = "none" /\ args = NoArgs /\ ret = NoRet
    /\ words = <<>> /\ words0 = <<>>
    /\ secret \in {W("a","a","a","a","a")}
    /\ best_guess = None
    /\ pattern = <<>>
    /\ pc = "calls"
    /\ truthful = TRUE
    /\ turns = 0

CallGetPattern ==
    /\ fn = "none"
    /\ \E g \in PatternCallWords, s \in PatternCallWords :
        /\ fn' = "get_pattern"
        /\ args' = [NoArgs EXCEPT !.guess_word = g, !.secret_word = s]
        /\ ret' = IF get_pattern_raises(g, s) THEN Raised("IndexError")
                  ELSE Returned(get_pattern(g, s))
    /\ UNCHANGED sessionVars

CallGetPatternCounts ==
    /\ fn = "none"
    /\ \E g \in Dict, C \in WordLists :
        /\ fn' = "get_pattern_counts"
        /\ args' = [NoArgs EXCEPT !.guess_word = g, !.words = C]
        /\ ret' = Returned(get_pattern_counts(g, C))
    /\ UNCHANGED sessionVars

CallCalculateEntropy ==
    /\ fn = "none"
    /\ \E g \in Dict, C \in WordLists :
        /\ fn' = "calculate_entropy"
        /\ args' = [NoArgs EXCEPT !.guess_word = g, !.words = C]
        /\ ret' = IF calculate_entropy_raises(g, C) THEN Raised("ZeroDivisionError")
                  ELSE Returned(calculate_entropy(g, C))
    /\ UNCHANGED sessionVars

CallGetBestGuess ==
    /\ fn = "none"
    /\ \E C \in WordLists :
        /\ fn' = "get_best_guess"
        /\ args' = [NoArgs EXCEPT !.words = C]
        /\ ret' = Returned(get_best_guess(C))
    /\ UNCHANGED sessionVars

CallGetWordsWithPattern ==
    /\ fn = "none"
    /\ \E g \in Dict, C \in WordLists : \E p \in CallPatterns(g) :
        /\ fn' = "get_words_with_pattern"
        /\ args' = [NoArgs EXCEPT !.guess_word = g, !.words = C, !.pattern = p]
        /\ ret' = Returned(get_words_with_pattern(g, C, p))
    /\ UNCHANGED sessionVars

NextCalls ==
    \/ CallGetPattern
    \/ CallGetPatternCounts
    \/ CallCalculateEntropy
    \/ CallGetBestGuess
    \/ CallGetWordsWithPattern

SpecCalls == InitCalls /\ [][NextCalls]_vars

----------------------------------------------------------------------------
(* Properties *)

AABBB == W("a", "a", "b", "b", "b")

ABABA == W("a", "b", "a", "b", "a")

\* The marking rule stated position by position: Green on an exact match;
\* otherwise Yellow iff the Greens of the letter anywhere in the guess plus
\* the Yellows of the letter to the left are fewer than its occurrences in
\* the secret; otherwise Black.
ReferencePattern(g, s) ==
    LET mark[i \in 1..WordLen] ==
            IF g[i] = s[i] THEN "G"
            ELSE LET c == g[i]
                     greens == Cardinality({ j \in 1..WordLen : g[j] = c /\ s[j] = c })
                     yellows == Cardinality({ j \in 1..(i - 1) :
                                    g[j] = c /\ g[j] # s[j] /\ mark[j] = "Y" })
                 IN  IF greens + yellows < Occ(c, s) THEN "Y" ELSE "B"
    IN  <<mark[1], mark[2], mark[3], mark[4], mark[5]>>

\* C1: for 5-letter guess and secret, get_pattern returns the pattern of the
\* position-by-position rule (Green on exact match; else Yellow iff Greens of
\* the letter plus earlier Yellows of the letter < occurrences in the secret;
\* else Black); get_pattern("aabbb", "ababa") is GYYGB.
C1_TwoPassReference ==
    (fn = "get_pattern" /\ Len(args.guess_word) = WordLen
                        /\ Len(args.secret_word) = WordLen)
    => /\ ret.raised = ""
       /\ ret.value = ReferencePattern(args.guess_word, args.secret_word)
       /\ (args.guess_word = AABBB /\ args.secret_word = ABABA)
            => ret.value = W("G", "Y", "Y", "G", "B")

C1_Witness ==
    /\ fn = "get_pattern"
    /\ args.guess_word = AABBB /\ args.secret_word = ABABA
    /\ ret = Returned(W("G", "Y", "Y", "G", "B"))

\* C2: a get_pattern call whose guess and secret differ in length fails with
\* InvalidLength and returns no pattern.
C2_InvalidLength ==
    (fn = "get_pattern" /\ Len(args.guess_word) # Len(args.secret_word))
    => ret.raised = "InvalidLength"

\* The indices of wordlist whose word produces pattern p against guess g.
Matching(g, wordlist, p) ==
    { i \in 1..Len(wordlist) : get_pattern(g, wordlist[i]) = p }

\* The k-th smallest element of a set of indices.
KthIndex(S, k) == CHOOSE i \in S : Cardinality({ j \in S : j <= i }) = k

\* C3: get_words_with_pattern(g, C, p) is the subsequence of C, in the
\* original order, of exactly the candidates c with get_pattern(g, c) = p.
C3_FilterExact ==
    fn = "get_words_with_pattern"
    => LET M == Matching(args.guess_word, args.words, args.pattern)
           R == ret.value
       IN  /\ ret.raised = ""
           /\ Len(R) = Cardinality(M)
           /\ \A k \in 1..Len(R) : R[k] = args.words[KthIndex(M, k)]

C3_Witness ==
    /\ fn = "get_words_with_pattern"
    /\ Len(args.words) = 3
    /\ Len(ret.value) = 2
    /\ ret.value[1] # ret.value[2]
    /\ ret.value = <<args.words[1], args.words[3]>>

\* C4: get_best_guess on an empty list fails with EmptyPool and returns no
\* value.
C4_EmptyPool ==
    (fn = "get_best_guess" /\ args.words = <<>>) => ret.raised = "EmptyPool"

\* C5: for a non-empty list W, get_best_guess(W) is the word at the smallest
\* index of maximal entropy: no word of W has greater entropy and every
\* earlier word has strictly smaller entropy.
C5_StableArgMax ==
    (fn = "get_best_guess" /\ args.words # <<>>)
    => LET H(i) == calculate_entropy(args.words[i], args.words)
       IN  /\ ret.raised = ""
           /\ \E k \in 1..Len(args.words) :
                /\ ret.value = args.words[k]
                /\ \A j \in 1..Len(args.words) : ~EntropyGreater(H(j), H(k))
                /\ \A j \in 1..(k - 1) : EntropyGreater(H(k), H(j))

\* A list whose first word is not maximal and whose maximum is shared by the
\* second and third word.
C5_Witness ==
    /\ fn = "get_best_guess"
    /\ Len(args.words) = 3
    /\ args.words[2] # args.words[3]
    /\ LET H(i) == calculate_entropy(args.words[i], args.words)
       IN  /\ EntropyGreater(H(2), H(1))
           /\ ~EntropyGreater(H(2), H(3)) /\ ~EntropyGreater(H(3), H(2))
    /\ ret.value = args.words[2]

RECURSIVE SumCounts(_, _)
SumCounts(table, keys) ==
    IF keys = {} THEN 0
    ELSE LET p == CHOOSE q \in keys : TRUE
         IN  table[p] + SumCounts(table, keys \ {p})

\* C6: the table of get_pattern_counts(g, C) has exactly the patterns
\* get_pattern(g, c), c in C, as keys, each count is the number of candidates
\* producing the pattern and is >= 1, the counts sum to len(C), and the table
\* is empty for empty C.
C6_SparseConserving ==
    fn = "get_pattern_counts"
    => LET table == ret.value
           g == args.guess_word
           C == args.words
       IN  /\ ret.raised = ""
           /\ DOMAIN table = { get_pattern(g, C[i]) : i \in 1..Len(C) }
           /\ \A p \in DOMAIN table :
                table[p] >= 1 /\ table[p] = Cardinality(Matching(g, C, p))
           /\ SumCounts(table, DOMAIN table) = Len(C)
           /\ (C = <<>> => DOMAIN table = {})

C6_Witness ==
    /\ fn = "get_pattern_counts"
    /\ Len(args.words) = 3
    /\ Cardinality(DOMAIN ret.value) = 2
    /\ \E p \in DOMAIN ret.value : ret.value[p] = 2

\* C7: calculate_entropy(g, C) raises nothing and returns 0 when C is empty,
\* and returns 0 when every candidate of C produces the same pattern.
C7_ZeroEntropy ==
    fn = "calculate_entropy"
    => LET g == args.guess_word
           C == args.words
       IN  /\ ret.raised = ""
           /\ (C = <<>> => EntropyIsZero(ret.value))
           /\ (\A i, j \in 1..Len(C) : get_pattern(g, C[i]) = get_pattern(g, C[j]))
                => EntropyIsZero(ret.value)

C7_Witness ==
    /\ fn = "calculate_entropy"
    /\ args.words = <<>>
    /\ ret.raised = ""
    /\ EntropyIsZero(ret.value)

\* C8: once the filter has returned an empty list, no further turn is run on
\* it: the loop does not go from a selected guess to a filter call while the
\* list is empty.
C8_ExhaustedStops ==
    [][~(words0 # <<>> /\ words = <<>> /\ pc = "input" /\ pc' = "select")]_vars

RECURSIVE IsSubseq(_, _)
IsSubseq(a, b) ==
    IF a = <<>> THEN TRUE
    ELSE IF b = <<>> THEN FALSE
    ELSE IF Head(a) = Head(b) THEN IsSubseq(Tail(a), Tail(b))
    ELSE IsSubseq(a, Tail(b))

Elems(wordlist) == { wordlist[i] : i \in 1..Len(wordlist) }

\* C9: with the secret in the initial list and truthful feedback so far, the
\* secret is still in the list; and every turn leaves a subsequence of the
\* previous list.
C9_SecretKept ==
    /\ []((secret \in Elems(words0) /\ truthful) => secret \in Elems(words))
    /\ [][IsSubseq(words', words)]_vars

C9_Witness ==
    /\ secret \in Elems(words0)
    /\ truthful
    /\ turns = 2
    /\ Len(words) < Len(words0)
    /\ secret \in Elems(words)

Distinct(wordlist) == Cardinality(Elems(wordlist)) = Len(wordlist)

Solvable == Distinct(words0) /\ secret \in Elems(words0)

\* C10: with pairwise distinct initial words containing the secret and
\* truthful feedback, a turn whose guess is not the secret strictly shrinks
\* the list, after len(initial list) turns the list is [secret], and it
\* stays [secret] on later turns.
C10_Progress ==
    /\ []((Solvable /\ truthful /\ turns >= Len(words0)) => words = <<secret>>)
    /\ [][(Solvable /\ truthful' /\ pc = "input" /\ best_guess # secret)
            => Len(words') < Len(words)]_vars
    /\ [][(Solvable /\ truthful' /\ words = <<secret>>) => words' = <<secret>>]_vars

C10_Witness ==
    /\ Solvable /\ truthful
    /\ Len(words0) = 3
    /\ turns = 3
    /\ pc = "select"
    /\ words = <<secret>>

====
